---- MODULE Spec2Model ----
(***************************************************************************)
(* Model of ligo.skymap.tool.ligo_skymap_plot: parser() and main().        *)
(*                                                                         *)
(* main() is one straight-line run.  Each action below is one statement    *)
(* group of main(); pc is the position of the run.  The plotting library   *)
(* is observed through the sequence of calls made on it (calls) and the    *)
(* arguments of those calls (projection, image, levels, markers, text).    *)
(*                                                                         *)
(* Floating point quantities are kept in fixed point:                      *)
(*   probabilities       in units of 1/ProbScale                           *)
(*   percentages         in units of 1/PctScale percent                    *)
(*   areas               in units of 1/AreaScale square degree             *)
(*   densities           in units of 1/DensityScale per square degree      *)
(*   angles              in units of 1/AngleScale degree or radian         *)
(***************************************************************************)
EXTENDS Integers, Sequences, FiniteSets

\* ------------------------------------------------------------------ bounds
MaxContour == 2
MaxRadec == 2
MaxRows == 2

\* ------------------------------------------------------- fixed point units
ProbScale == 1000
PctScale == 100
AreaScale == 1000
DensityScale == 1000000
AngleScale == 1000

\* Area of the whole sphere, (180/pi)^2 * 4 * pi = 41252.961 square degrees.
FullSkyArea == 41252961
\* pi, in units of 1/AngleScale.
PiScaled == 3142

\* ------------------------------------------------------------ input domains
\* Percentages a user may pass to --contour: 50, 50.5, 89.7.
Percents == {5000, 5050, 8970}
\* (RA, Dec) pairs a user may pass to --radec, in degrees.
Positions == {<<10000, 20000>>, <<180000, -45000>>}
\* (longitude, latitude) rows the injection query may select, in radians.
Rows == {<<1571, 785>>, <<3142, -524>>, <<524, 0>>}
\* HEALPix resolutions of the input file.
Nsides == {1}
\* Leading pixel values of the input maps; the remaining pixels are zero.
Templates == {<<500, 300, 200>>, <<400, 400, 100, 100>>}
\* Header keys that the FITS file may or may not carry.
OptionalKeys == {"gps_time", "objid"}

\* ----------------------------------------------------------------- helpers
Range(s) == {s[i] : i \in 1..Len(s)}

SeqsUpTo(S, n) == UNION {[1..m -> S] : m \in 0..n}

RECURSIVE SumSet(_, _)
SumSet(f, S) ==
    IF S = {} THEN 0
    ELSE LET x == CHOOSE y \in S : TRUE IN f[x] + SumSet(f, S \ {x})

\* numpy.round: round half to even, x given in units of 1/unit.
RoundHalfEven(x, unit) ==
    LET q == x \div unit
        r == x % unit
    IN  IF 2 * r < unit THEN q
        ELSE IF 2 * r > unit THEN q + 1
        ELSE IF q % 2 = 0 THEN q ELSE q + 1

\* numpy.sort of a one-dimensional array (ascending).
Sort(s) ==
    [i \in 1..Len(s) |->
        CHOOSE v \in Range(s) :
            /\ Cardinality({j \in 1..Len(s) : s[j] < v}) < i
            /\ i <= Cardinality({j \in 1..Len(s) : s[j] <= v})]

\* Variant: side='right', the insertion index i with a[:i] <= v < a[i:].
SearchSortedRight(a, v) == Cardinality({j \in 1..Len(a) : a[j] <= v})

\* numpy.searchsorted(a, v) with the default side='left' on a sorted array:
\* the insertion index i with a[:i] < v <= a[i:].
SearchSorted(a, v) == Cardinality({j \in 1..Len(a) : a[j] < v})

\* healpy.npix2nside and healpy.nside2pixarea(nside, degrees=True).
Npix2Nside(npix) == CHOOSE n \in 1..npix : 12 * n * n = npix
Nside2PixArea(n) == FullSkyArea \div (12 * n * n)

\* numpy.rad2deg on one coordinate.
Rad2Deg(x) == (x * 180 * AngleScale) \div PiScaled

\* postprocess.find_greedy_credible_levels(p): pixels are ranked by
\* descending p and each pixel gets the cumulative sum up to its own rank.
\* The rank among equal pixels is whatever argsort yields (tie).
TieOrders == {"ascending", "descending"}
Before(p, tie, j, i) ==
    \/ p[j] > p[i]
    \/ p[j] = p[i] /\ (IF tie = "ascending" THEN j <= i ELSE j >= i)
FindGreedyCredibleLevels(p, tie) ==
    [i \in 1..Len(p) |-> SumSet(p, {j \in 1..Len(p) : Before(p, tie, j, i)})]

\* ------------------------------------------------------------ the FITS file
Pixels(n, t) == [i \in 1..(12 * n * n) |-> IF i <= Len(t) THEN t[i] ELSE 0]

\* Value stored under a header key: GPS seconds, event number, ordering flag.
HeaderValue(key) ==
    IF key = "gps_time" THEN 1126259462 ELSE IF key = "objid" THEN 7 ELSE 0

Headers ==
    {[key \in K \cup {"nest"} |-> HeaderValue(key)] : K \in SUBSET OptionalKeys}

FitsFiles ==
    {[pixels |-> Pixels(n, t), header |-> h] :
        n \in Nsides, t \in Templates, h \in Headers}

\* ------------------------------------------------------------ command line
CommandLines ==
    [annotate : BOOLEAN, contour : SeqsUpTo(Percents, MaxContour),
     colorbar : BOOLEAN, radec : SeqsUpTo(Positions, MaxRadec),
     inj_database : BOOLEAN, geo : BOOLEAN]

Databases == {R \in SUBSET Rows : Cardinality(R) <= MaxRows}

\* ------------------------------------------------------------------- state
VARIABLES
    argv,         \* the command line
    database,     \* rows the injection query selects from --inj-database
    fitsfile,     \* the input file: pixels and header
    pc,           \* position of the run in main()
    error,        \* exception that ended the run, or "none"
    opts,         \* parser().parse_args()
    skymap,       \* main: skymap
    metadata,     \* main: metadata
    nside,        \* main: nside
    deg2perpix,   \* main: deg2perpix
    probperdeg2,  \* main: probperdeg2
    vmax,         \* main: vmax
    cls,          \* main: cls; <<>> while the name is unbound
    clsInput,     \* argument of find_greedy_credible_levels
    radecs,       \* main: radecs, the same list object as opts.radec
    k,            \* position of the marker loop in radecs
    calls,        \* calls made on the plotting library, in order
    projection,   \* projection argument of plt.axes
    obstime,      \* obstime argument of plt.axes
    image,        \* array argument of ax.imshow_hpx
    levels,       \* levels argument of ax.contour_hpx
    markers,      \* coordinates given to ax.plot_coord, in order
    text          \* lines of the string given to ax.text

vars == <<argv, database, fitsfile, pc, error, opts, skymap, metadata, nside,
          deg2perpix, probperdeg2, vmax, cls, clsInput, radecs, k, calls,
          projection, obstime, image, levels, markers, text>>

inputs == <<argv, database, fitsfile>>
locals == <<opts, skymap, metadata, nside, deg2perpix, probperdeg2, vmax,
            cls, clsInput, radecs, k>>
figure == <<calls, projection, obstime, image, levels, markers, text>>

NoOpts ==
    [annotate |-> FALSE, contour |-> <<>>, colorbar |-> FALSE,
     radec |-> <<>>, inj_database |-> FALSE, geo |-> FALSE]

Init ==
    /\ argv \in CommandLines
    /\ database \in Databases
    /\ argv.inj_database = FALSE => database = {}
    /\ fitsfile \in FitsFiles
    /\ pc = "parse"
    /\ error = "none"
    /\ opts = NoOpts
    /\ skymap = <<>>
    /\ metadata = <<>>
    /\ nside = 0
    /\ deg2perpix = 0
    /\ probperdeg2 = <<>>
    /\ vmax = 0
    /\ cls = <<>>
    /\ clsInput = <<>>
    /\ radecs = <<>>
    /\ k = 1
    /\ calls = <<>>
    /\ projection = "none"
    /\ obstime = 0
    /\ image = <<>>
    /\ levels = <<>>
    /\ markers = <<>>
    /\ text = <<>>

\* --------------------------------------------------- the statements of main
\* Variant: the figure is written before the annotation is added.
StepAfterOutputEarly(step) ==
    CASE step = "parse" -> "read"
      [] step = "read" -> "convert"
      [] step = "convert" -> "axes"
      [] step = "axes" -> "imshow"
      [] step = "imshow" -> "colorbar"
      [] step = "colorbar" -> "contour"
      [] step = "contour" -> "continents"
      [] step = "continents" -> "inject"
      [] step = "inject" -> "markers"
      [] step = "markers" -> "outline"
      [] step = "outline" -> "output"
      [] step = "output" -> "annotate"
      [] step = "annotate" -> "done"

\* Order of the statement groups of main(), top to bottom.
StepAfter(step) ==
    CASE step = "parse" -> "read"
      [] step = "read" -> "convert"
      [] step = "convert" -> "axes"
      [] step = "axes" -> "imshow"
      [] step = "imshow" -> "colorbar"
      [] step = "colorbar" -> "contour"
      [] step = "contour" -> "continents"
      [] step = "continents" -> "inject"
      [] step = "inject" -> "markers"
      [] step = "markers" -> "outline"
      [] step = "outline" -> "annotate"
      [] step = "annotate" -> "output"
      [] step = "output" -> "done"

\* metadata[key] raises KeyError when the key is absent.
HasKey(m, key) == key \in DOMAIN m

\* Variant: a single percentage is not taken as a contour request.
ContourGivenSeveral(o) == Len(o.contour) > 1

\* Truth value of opts.contour: None and the empty list are both false.
ContourGiven(o) == Len(o.contour) > 0

\* Variant: the two projection strings are swapped.
ProjectionSwapped(o) ==
    IF o.geo THEN "astro hours mollweide" ELSE "geo degrees mollweide"

\* The projection argument of plt.axes.
Projection(o) ==
    IF o.geo THEN "geo degrees mollweide" ELSE "astro hours mollweide"

\* Variant: division by the area of all pixels instead of one pixel.
ProbPerDeg2WholeSky(m, area) ==
    [i \in 1..Len(m) |-> (m[i] * DensityScale) \div (area * Len(m))]

\* skymap / deg2perpix, element by element.
ProbPerDeg2(m, area) ==
    [i \in 1..Len(m) |-> (m[i] * DensityScale) \div area]

\* ndarray.max()
Max(a) == CHOOSE v \in Range(a) : \A i \in 1..Len(a) : a[i] <= v

\* 100 * find_greedy_credible_levels(skymap)
CredibleLevels(m, tie) ==
    LET c == FindGreedyCredibleLevels(m, tie)
    IN  [i \in 1..Len(m) |-> (100 * c[i] * PctScale) \div ProbScale]

\* Variant: a missing 'objid' is tolerated by the lookup.
InjectionErrorIgnoringObjid(m, rows) ==
    IF Cardinality(rows) # 1 THEN "ValueError" ELSE "none"

\* Variant: only an empty result is an error, the first row is used.
InjectionErrorFirstRow(m, rows) ==
    IF ~HasKey(m, "objid") THEN "KeyError"
    ELSE IF Cardinality(rows) = 0 THEN "ValueError"
    ELSE "none"

\* Exception raised by the injection lookup, or "none":
\* metadata['objid'] is evaluated first, then the rows are unpacked.
InjectionError(m, rows) ==
    IF ~HasKey(m, "objid") THEN "KeyError"
    ELSE IF Cardinality(rows) # 1 THEN "ValueError"
    ELSE "none"

\* np.rad2deg([ra, dec]).tolist() of the single row.
InjectionMarker(rows) ==
    LET row == CHOOSE r \in rows : TRUE
    IN  <<Rad2Deg(row[1]), Rad2Deg(row[2])>>

\* A line of the annotation.
EventLine(objid) == [label |-> "event ID", value |-> objid, area |-> 0]
AreaLine(p, i) == [label |-> "% area", value |-> p, area |-> i]

\* Variant: a default object identifier stands in for a missing one.
ObjidLinesDefault(m) ==
    <<EventLine(IF HasKey(m, "objid") THEN m["objid"] ELSE 0)>>

\* try: objid = metadata['objid'] / except KeyError: pass / else: append
ObjidLines(m) ==
    IF HasKey(m, "objid") THEN <<EventLine(m["objid"])>> ELSE <<>>

\* Variant: the labels are taken from the sorted percentages.
ContourLabelsSorted(contour) ==
    [n \in 1..Len(contour) |-> RoundHalfEven(Sort(contour)[n], PctScale)]

\* pp = np.round(opts.contour).astype(int)
ContourLabels(contour) ==
    [n \in 1..Len(contour) |-> RoundHalfEven(contour[n], PctScale)]

\* ii = np.round(np.searchsorted(np.sort(cls), opts.contour) * deg2perpix)
ContourAreas(levelsOf, contour, area) ==
    [n \in 1..Len(contour) |->
        RoundHalfEven(SearchSorted(Sort(levelsOf), contour[n]) * area,
                      AreaScale)]

\* for i, p in zip(ii, pp): text.append(...)
AreaLines(ii, pp) ==
    [n \in 1..(IF Len(ii) < Len(pp) THEN Len(ii) ELSE Len(pp)) |->
        AreaLine(pp[n], ii[n])]

Fail(exc) ==
    /\ pc' = "failed"
    /\ error' = exc

Continue ==
    /\ pc' = StepAfter(pc)
    /\ error' = error

\* opts = parser().parse_args()
ParseArgs ==
    /\ pc = "parse"
    /\ opts' = [annotate |-> argv.annotate, contour |-> argv.contour,
                colorbar |-> argv.colorbar, radec |-> argv.radec,
                inj_database |-> argv.inj_database, geo |-> argv.geo]
    /\ Continue
    /\ UNCHANGED <<inputs, skymap, metadata, nside, deg2perpix, probperdeg2,
                   vmax, cls, clsInput, radecs, k, figure>>

\* skymap, metadata = fits.read_sky_map(...); nside = hp.npix2nside(...)
ReadSkyMap ==
    /\ pc = "read"
    /\ skymap' = fitsfile.pixels
    /\ metadata' = fitsfile.header
    /\ nside' = Npix2Nside(Len(fitsfile.pixels))
    /\ calls' = Append(calls, "read_sky_map")
    /\ Continue
    /\ UNCHANGED <<inputs, opts, deg2perpix, probperdeg2, vmax, cls, clsInput,
                   radecs, k, projection, obstime, image, levels, markers,
                   text>>

\* deg2perpix = hp.nside2pixarea(...); probperdeg2 = skymap / deg2perpix
Convert ==
    /\ pc = "convert"
    /\ deg2perpix' = Nside2PixArea(nside)
    /\ probperdeg2' = ProbPerDeg2(skymap, Nside2PixArea(nside))
    /\ Continue
    /\ UNCHANGED <<inputs, opts, skymap, metadata, nside, vmax, cls, clsInput,
                   radecs, k, figure>>

\* ax = plt.axes(projection=..., obstime=...); ax.grid()
CreateAxes ==
    /\ pc = "axes"
    /\ IF HasKey(metadata, "gps_time")
       THEN /\ projection' = Projection(opts)
            /\ obstime' = metadata["gps_time"]
            /\ calls' = calls \o <<"axes", "grid">>
            /\ Continue
       ELSE /\ Fail("KeyError")
            /\ UNCHANGED <<projection, obstime, calls>>
    /\ UNCHANGED <<inputs, locals, image, levels, markers, text>>

\* vmax = probperdeg2.max(); img = ax.imshow_hpx(...)
PlotSkyMap ==
    /\ pc = "imshow"
    /\ vmax' = Max(probperdeg2)
    /\ image' = probperdeg2
    /\ calls' = Append(calls, "imshow_hpx")
    /\ Continue
    /\ UNCHANGED <<inputs, opts, skymap, metadata, nside, deg2perpix,
                   probperdeg2, cls, clsInput, radecs, k, projection, obstime,
                   levels, markers, text>>

\* if opts.colorbar: ...
AddColorbar ==
    /\ pc = "colorbar"
    /\ calls' = IF opts.colorbar THEN Append(calls, "colorbar") ELSE calls
    /\ Continue
    /\ UNCHANGED <<inputs, locals, projection, obstime, image, levels,
                   markers, text>>

\* if opts.contour: ...
AddContours ==
    /\ pc = "contour"
    /\ IF ContourGiven(opts)
       THEN \E tie \in TieOrders :
            /\ cls' = CredibleLevels(skymap, tie)
            /\ clsInput' = skymap
            /\ levels' = opts.contour
            /\ calls' = calls \o <<"contour_hpx", "clabel">>
       ELSE UNCHANGED <<cls, clsInput, levels, calls>>
    /\ Continue
    /\ UNCHANGED <<inputs, opts, skymap, metadata, nside, deg2perpix,
                   probperdeg2, vmax, radecs, k, projection, obstime, image,
                   markers, text>>

\* if opts.geo: ...
AddContinents ==
    /\ pc = "continents"
    /\ calls' = IF opts.geo THEN Append(calls, "coastlines") ELSE calls
    /\ Continue
    /\ UNCHANGED <<inputs, locals, projection, obstime, image, levels,
                   markers, text>>

\* radecs = opts.radec; if opts.inj_database: ... radecs.append(...)
QueryInjection ==
    /\ pc = "inject"
    /\ IF ~opts.inj_database
       THEN /\ radecs' = opts.radec
            /\ opts' = opts
            /\ Continue
       ELSE IF InjectionError(metadata, database) # "none"
       THEN /\ radecs' = opts.radec
            /\ opts' = opts
            /\ Fail(InjectionError(metadata, database))
       ELSE /\ radecs' = Append(opts.radec, InjectionMarker(database))
            /\ opts' = [opts EXCEPT
                            !.radec = Append(@, InjectionMarker(database))]
            /\ Continue
    /\ UNCHANGED <<inputs, skymap, metadata, nside, deg2perpix, probperdeg2,
                   vmax, cls, clsInput, k, figure>>

\* for ra, dec in radecs: ax.plot_coord(...)
PlotMarker ==
    /\ pc = "markers"
    /\ k <= Len(radecs)
    /\ markers' = Append(markers, radecs[k])
    /\ calls' = Append(calls, "plot_coord")
    /\ k' = k + 1
    /\ UNCHANGED <<inputs, pc, error, opts, skymap, metadata, nside,
                   deg2perpix, probperdeg2, vmax, cls, clsInput, radecs,
                   projection, obstime, image, levels, text>>

MarkersDone ==
    /\ pc = "markers"
    /\ k > Len(radecs)
    /\ Continue
    /\ UNCHANGED <<inputs, locals, figure>>

\* plot.outline_text(ax)
OutlineText ==
    /\ pc = "outline"
    /\ calls' = Append(calls, "outline_text")
    /\ Continue
    /\ UNCHANGED <<inputs, locals, projection, obstime, image, levels,
                   markers, text>>

\* if opts.annotate: ...
Annotate ==
    /\ pc = "annotate"
    /\ IF ~opts.annotate
       THEN /\ UNCHANGED <<text, calls>>
            /\ Continue
       ELSE IF ContourGiven(opts) /\ cls = <<>>
       THEN /\ UNCHANGED <<text, calls>>
            /\ Fail("NameError")
       ELSE /\ text' = ObjidLines(metadata) \o
                       (IF ContourGiven(opts)
                        THEN AreaLines(
                                 ContourAreas(cls, opts.contour, deg2perpix),
                                 ContourLabels(opts.contour))
                        ELSE <<>>)
            /\ calls' = Append(calls, "text")
            /\ Continue
    /\ UNCHANGED <<inputs, locals, projection, obstime, image, levels,
                   markers>>

\* opts.output()
Output ==
    /\ pc = "output"
    /\ calls' = Append(calls, "output")
    /\ Continue
    /\ UNCHANGED <<inputs, locals, projection, obstime, image, levels,
                   markers, text>>

Next ==
    \/ ParseArgs
    \/ ReadSkyMap
    \/ Convert
    \/ CreateAxes
    \/ PlotSkyMap
    \/ AddColorbar
    \/ AddContours
    \/ AddContinents
    \/ QueryInjection
    \/ PlotMarker
    \/ MarkersDone
    \/ OutlineText
    \/ Annotate
    \/ Output

Spec == Init /\ [][Next]_vars

\* ------------------------------------------------------------- observations
Called(op) == \E i \in 1..Len(calls) : calls[i] = op

CountCalls(op) == Cardinality({i \in 1..Len(calls) : calls[i] = op})

GeoProjection == "geo degrees mollweide"
AstroProjection == "astro hours mollweide"

FileHasObjid == "objid" \in DOMAIN fitsfile.header
FileHasGpsTime == "gps_time" \in DOMAIN fitsfile.header

\* The statements of main() below the given statement group.
RECURSIVE Below(_)
Below(step) ==
    IF step = "done" THEN {}
    ELSE {StepAfter(step)} \cup Below(StepAfter(step))

\* The '% area' lines of the annotation, in the order they were added.
IsAreaLine(line) == line.label = "% area"
TextAreaLines == SelectSeq(text, IsAreaLine)

\* Per-pixel area derived from the resolution of the map that was read.
FilePixelArea == Nside2PixArea(Npix2Nside(Len(fitsfile.pixels)))

\* ------------------------------------------------------------------- claims

\* C1: the projection passed when the axes are created is the geographic
\* string exactly when --geo is set and the celestial string otherwise,
\* whatever the other flags; no other projection string is used.
C1_ProjectionFollowsGeo ==
    /\ projection \in {"none", GeoProjection, AstroProjection}
    /\ Called("axes") =>
          projection = (IF argv.geo THEN GeoProjection ELSE AstroProjection)
    /\ ~Called("axes") => projection = "none"

C1_Witness ==
    /\ Called("axes")
    /\ argv.geo /\ argv.annotate /\ argv.colorbar /\ argv.inj_database
    /\ Len(argv.contour) > 0 /\ Len(argv.radec) > 0
    /\ projection = GeoProjection

\* C2: with --annotate and --contour, the annotation has exactly one
\* '% area' line per percentage given, in the order given; the n-th line
\* shows the n-th percentage rounded to a nearest integer together with the
\* area computed for that same n-th percentage.
C2_OneLinePerContourInOrder ==
    (Called("text") /\ argv.annotate /\ Len(argv.contour) > 0) =>
        /\ Len(TextAreaLines) = Len(argv.contour)
        /\ \A n \in 1..Len(argv.contour) :
            LET line == TextAreaLines[n]
                gap == line.value * PctScale - argv.contour[n]
            IN  /\ 2 * gap <= PctScale
                /\ 2 * gap >= -PctScale
                /\ line.area =
                      ContourAreas(cls, <<argv.contour[n]>>, deg2perpix)[1]

C2_Witness ==
    /\ Called("text") /\ argv.annotate
    /\ Len(argv.contour) = 2
    /\ argv.contour[1] > argv.contour[2]
    /\ Len(TextAreaLines) = 2
    /\ TextAreaLines[1].area > TextAreaLines[2].area
    /\ TextAreaLines[1].value = 90

\* C3: the array drawn as the sky image has the length and pixel order of
\* the map that was read, each pixel being the input probability divided by
\* the per-pixel area; the input map is unchanged and is the array handed
\* to the credible level computation.
C3_ImageIsDensity ==
    /\ Called("imshow_hpx") =>
        /\ Len(image) = Len(fitsfile.pixels)
        /\ \A i \in 1..Len(image) :
            /\ image[i] * FilePixelArea <= fitsfile.pixels[i] * DensityScale
            /\ fitsfile.pixels[i] * DensityScale < (image[i] + 1) * FilePixelArea
    /\ Called("read_sky_map") => skymap = fitsfile.pixels
    /\ Called("contour_hpx") => clsInput = fitsfile.pixels

C3_Witness ==
    /\ Called("imshow_hpx") /\ Called("contour_hpx")
    /\ \E i, j \in 1..Len(image) : image[i] > image[j] /\ image[j] > 0

\* C4 as stated: with --annotate, without --inj-database and without
\* 'objid' in the metadata, main() raises no error.
C4_NoErrorWithoutObjid ==
    (argv.annotate /\ ~argv.inj_database /\ ~FileHasObjid) => error = "none"

\* C4 amended: the same, for metadata that carries 'gps_time': no error is
\* raised, the annotation is drawn without an 'event ID' line and the run
\* goes on to the output step; with 'objid' present the first line of the
\* annotation is 'event ID: <objid>'.
C4_MissingObjidIsSkipped ==
    /\ (argv.annotate /\ ~argv.inj_database /\ ~FileHasObjid
            /\ FileHasGpsTime) =>
        /\ error = "none"
        /\ pc # "failed"
        /\ Called("text") => \A n \in 1..Len(text) : text[n].label # "event ID"
        /\ pc = "done" => Called("text") /\ Called("output")
    /\ (Called("text") /\ FileHasObjid) =>
        /\ Len(text) >= 1
        /\ text[1] = EventLine(fitsfile.header["objid"])
        /\ \A n \in 2..Len(text) : text[n].label # "event ID"

C4_Witness ==
    /\ pc = "done" /\ Called("output") /\ Called("text")
    /\ argv.annotate /\ ~argv.inj_database /\ ~FileHasObjid
    /\ Len(text) > 0

\* C5: a missing 'objid' with --inj-database, or a missing 'gps_time', ends
\* the run with the KeyError, and the output step is never reached, with or
\* without --annotate.
C5_MissingKeyPropagates ==
    ((argv.inj_database /\ ~FileHasObjid) \/ ~FileHasGpsTime) =>
        /\ ~Called("output")
        /\ pc # "done"
        /\ pc = "failed" => error = "KeyError"
        /\ error \in {"none", "KeyError"}
        /\ ~FileHasGpsTime => pc \notin Below("axes")
        /\ pc \notin Below("inject")

C5_Witness ==
    /\ pc = "failed" /\ error = "KeyError"
    /\ argv.inj_database /\ ~FileHasObjid /\ FileHasGpsTime
    /\ Cardinality(database) = 1
    /\ ~argv.annotate

\* C6: the calls of a run come in one fixed order: the map is read once,
\* then the axes, the sky image, then colorbar, contours, coastlines,
\* markers and annotation text as enabled; the output step happens once,
\* last, and a run that has not failed goes on until it.
CallRank(op) ==
    CASE op = "read_sky_map" -> 1
      [] op = "axes" -> 2
      [] op = "grid" -> 3
      [] op = "imshow_hpx" -> 4
      [] op = "colorbar" -> 5
      [] op = "contour_hpx" -> 6
      [] op = "clabel" -> 7
      [] op = "coastlines" -> 8
      [] op = "plot_coord" -> 9
      [] op = "outline_text" -> 10
      [] op = "text" -> 11
      [] op = "output" -> 12

C6_FixedOrder ==
    /\ \A i, j \in 1..Len(calls) :
          i < j =>
            \/ CallRank(calls[i]) < CallRank(calls[j])
            \/ calls[i] = "plot_coord" /\ calls[j] = "plot_coord"
    /\ Len(calls) > 0 => calls[1] = "read_sky_map"
    /\ Called("imshow_hpx") => Called("axes")
    /\ Called("output") => Called("imshow_hpx") /\ pc = "done"
    /\ pc = "done" =>
          /\ calls[Len(calls)] = "output"
          /\ CountCalls("output") = 1
          /\ CountCalls("read_sky_map") = 1
          /\ error = "none"

C6_Witness ==
    /\ pc = "done"
    /\ Called("colorbar") /\ Called("contour_hpx") /\ Called("coastlines")
    /\ CountCalls("plot_coord") = 3 /\ Called("text")

\* C7, the part both statements share: every overlay is drawn only if its
\* own flag asks for it, and a finished run has drawn every overlay whose
\* flag is set; the credible levels are computed exactly with the contours.
C7_OverlayIffFlag ==
    /\ Called("colorbar") => argv.colorbar
    /\ Called("contour_hpx") => Len(argv.contour) > 0
    /\ Called("coastlines") => argv.geo
    /\ Called("text") => argv.annotate
    /\ Called("contour_hpx") <=> cls # <<>>
    /\ pc = "done" =>
          /\ argv.colorbar => Called("colorbar")
          /\ Len(argv.contour) > 0 => Called("contour_hpx")
          /\ argv.geo => Called("coastlines")
          /\ argv.annotate => Called("text")

NoOverlayFlag ==
    ~argv.colorbar /\ Len(argv.contour) = 0 /\ ~argv.geo /\ ~argv.annotate

OnlyGridAndImage ==
    \A i \in 1..Len(calls) :
        calls[i] \in {"read_sky_map", "axes", "grid", "imshow_hpx",
                      "outline_text", "output"}

\* C7 as stated: ... and with none of the four flags only the grid and the
\* sky image are drawn before output.
C7_OnlyGridAndImageWithoutFlags ==
    /\ C7_OverlayIffFlag
    /\ NoOverlayFlag => OnlyGridAndImage

\* C7 amended: ... and with none of the four flags and no marker requested
\* (no --radec, no --inj-database) only the grid and the sky image are drawn
\* before output.
C7_OverlaysFollowFlags ==
    /\ C7_OverlayIffFlag
    /\ (NoOverlayFlag /\ Len(argv.radec) = 0 /\ ~argv.inj_database) =>
          /\ OnlyGridAndImage
          /\ pc = "done" =>
                calls = <<"read_sky_map", "axes", "grid", "imshow_hpx",
                          "outline_text", "output">>

C7_Witness ==
    /\ pc = "done"
    /\ argv.colorbar /\ ~argv.geo /\ argv.annotate /\ Len(argv.contour) = 0
    /\ Called("colorbar") /\ Called("text") /\ ~Called("coastlines")

\* C8: one marker per --radec pair, in the order given, and with
\* --inj-database one more marker, for the injection, after them; the
\* injection marker needs exactly one row from the query, any other number
\* of rows fails the run before the output step.
C8_MarkersFollowRadec ==
    /\ CountCalls("plot_coord") = Len(markers)
    /\ \A n \in 1..Len(markers) :
          n <= Len(argv.radec) => markers[n] = argv.radec[n]
    /\ Len(markers) <=
          Len(argv.radec) + (IF argv.inj_database THEN 1 ELSE 0)
    /\ Called("outline_text") =>
          /\ Len(markers) =
                Len(argv.radec) + (IF argv.inj_database THEN 1 ELSE 0)
          /\ argv.inj_database =>
                /\ Cardinality(database) = 1
                /\ \A row \in database : \A c \in 1..2 :
                    LET m == markers[Len(markers)][c]
                    IN  /\ m * PiScaled <= row[c] * 180 * AngleScale
                        /\ row[c] * 180 * AngleScale < (m + 1) * PiScaled
    /\ (argv.inj_database /\ Cardinality(database) # 1) =>
          /\ ~Called("output")
          /\ pc # "done"
          /\ pc \notin Below("inject")

C8_Witness ==
    /\ pc = "done"
    /\ argv.inj_database
    /\ Len(argv.radec) = 2 /\ argv.radec[1] # argv.radec[2]
    /\ Len(markers) = 3

\* C9: when the outline step runs, every text element of the figure,
\* the --annotate block included, has already been added.
C9_OutlineCoversAllText ==
    \A i, j \in 1..Len(calls) :
        (calls[i] = "outline_text" /\ calls[j] \in {"clabel", "text"}) => j < i

\* C10: the area shown for percentage p is the rounded product of the
\* per-pixel area and the number of pixels whose credible level is strictly
\* below the unrounded p; the credible levels are bound whenever the
\* annotation reads them.
C10_AreaCountsStrictlyBelow ==
    /\ (Called("text") /\ Len(argv.contour) > 0) =>
        /\ Len(TextAreaLines) = Len(argv.contour)
        /\ Len(cls) = Len(fitsfile.pixels)
        /\ \A n \in 1..Len(TextAreaLines) :
            TextAreaLines[n].area =
                RoundHalfEven(
                    Cardinality({i \in 1..Len(cls) : cls[i] < argv.contour[n]})
                        * FilePixelArea,
                    AreaScale)
    /\ error # "NameError"
    /\ (pc = "annotate" /\ Len(argv.contour) > 0) => cls # <<>>
    /\ (Called("text") /\ Len(argv.contour) = 0) => TextAreaLines = <<>>

C10_Witness ==
    /\ Called("text")
    /\ argv.contour = <<5000, 5050>>
    /\ \E i \in 1..Len(cls) : cls[i] = 5000
    /\ TextAreaLines[1].value = TextAreaLines[2].value
    /\ TextAreaLines[1].area = 0
    /\ TextAreaLines[2].area > 0

====
